---- MODULE Spec2Model ----
(***************************************************************************)
(* A state-machine model of tinflate.c (tiny inflate): the bit reader, the *)
(* canonical Huffman tree builder and decoder, the three block inflaters   *)
(* and the top-level loop of tinf_uncompress.                              *)
(*                                                                         *)
(* One call of tinf_uncompress is one behaviour.  The call is cut into     *)
(* steps at the places where the C code loops: the block loop, the         *)
(* code-length loop of tinf_decode_trees and the symbol loop of            *)
(* tinf_inflate_block_data.  Pointers are offsets: `source` and `dest` are *)
(* the number of bytes between the start of the region and the cursor.     *)
(***************************************************************************)
EXTENDS Integers, Sequences, FiniteSets, TLC

VARIABLES
    sourceBytes,  \* the caller's source region (sourceLen bytes)
    destCap,      \* the caller's *destLen on entry: size of the dest region
    destBytes,    \* the dest region, UNWRITTEN where nothing was stored yet
    destLenOut,   \* the caller's *destLen
    source,       \* d.source, as an offset from the start of the region
    tag,          \* d.tag
    bitcount,     \* d.bitcount
    overflow,     \* d.overflow
    dest,         \* d.dest, as an offset from the start of the region
    destLen,      \* d.destLen
    ltree,        \* d.ltree
    dtree,        \* d.dtree
    bfinal,       \* local of tinf_uncompress
    res,          \* the value tinf_uncompress returns, NONE before it returns
    lengths,      \* local of tinf_decode_trees
    hlit,         \* local of tinf_decode_trees
    hdist,        \* local of tinf_decode_trees
    num,          \* local of tinf_decode_trees
    pc,           \* where the call stands
    fault,        \* history: the first undefined access or failed assert
    hist,         \* history: the block headers decoded, with each block's result
    last,         \* history: what the last step did, and the state it started from
    ample         \* history: what the source decodes to when dest has ample room

vars == << sourceBytes, destCap, destBytes, destLenOut, source, tag, bitcount,
           overflow, dest, destLen, ltree, dtree, bfinal, res, lengths, hlit,
           hdist, num, pc, fault, hist, last, ample >>

\* F applied to the value of v.  v is evaluated once, whatever F does with it.
Bind(v, F(_)) == CHOOSE y \in {F(x) : x \in {v}} : TRUE

(***************************************************************************)
(* The calls checked.  A source is a stream of up to MaxBlocks blocks,     *)
(* written bit by bit as RFC 1951 lays them out, packed into bytes, with   *)
(* its last bytes cut off (up to MaxCut of them); the dest region has room *)
(* for up to MaxCap bytes.  Bits are listed in stream order.  A call that   *)
(* is run as a whole is followed for up to MaxSteps steps.                 *)
(***************************************************************************)
MaxBlocks == 2
MaxCut == 1
MaxCap == 7
MaxSteps == 64

\* LEN 0
StoredEmpty ==
    [btype |-> 0, align |-> TRUE,
     body |-> << 0, 0, 0, 0, 0, 0, 0, 0, 0, 0, 0, 0, 0, 0, 0, 0, 1, 1, 1, 1, 1, 1, 1, 1, 1, 1, 1, 1, 1, 1, 1, 1 >>]

\* LEN 2, "ab"
StoredAb ==
    [btype |-> 0, align |-> TRUE,
     body |-> << 0, 1, 0, 0, 0, 0, 0, 0, 0, 0, 0, 0, 0, 0, 0, 0, 1, 0, 1, 1, 1, 1, 1, 1, 1, 1, 1, 1, 1, 1, 1, 1,
              1, 0, 0, 0, 0, 1, 1, 0, 0, 1, 0, 0, 0, 1, 1, 0 >>]

\* LEN 1 with NLEN 0xFFFF
StoredBadLen ==
    [btype |-> 0, align |-> TRUE,
     body |-> << 1, 0, 0, 0, 0, 0, 0, 0, 0, 0, 0, 0, 0, 0, 0, 0, 1, 1, 1, 1, 1, 1, 1, 1, 1, 1, 1, 1, 1, 1, 1, 1,
              1, 0, 0, 0, 0, 1, 1, 0 >>]

\* end of block only
FixedEmpty ==
    [btype |-> 1, align |-> FALSE,
     body |-> << 0, 0, 0, 0, 0, 0, 0 >>]

\* literal 'A', end of block
FixedA ==
    [btype |-> 1, align |-> FALSE,
     body |-> << 0, 1, 1, 1, 0, 0, 0, 1, 0, 0, 0, 0, 0, 0, 0 >>]

\* literal 'A', length 5 at distance 1, end of block
FixedRun ==
    [btype |-> 1, align |-> FALSE,
     body |-> << 0, 1, 1, 1, 0, 0, 0, 1, 0, 0, 0, 0, 0, 1, 1, 0, 0, 0, 0, 0, 0, 0, 0, 0, 0, 0, 0 >>]

\* length 3 at distance 2, end of block
FixedBack ==
    [btype |-> 1, align |-> FALSE,
     body |-> << 0, 0, 0, 0, 0, 0, 1, 0, 0, 0, 0, 1, 0, 0, 0, 0, 0, 0, 0 >>]

\* literals 144, 144, length 3 at distance 1, end of block
FixedLong ==
    [btype |-> 1, align |-> FALSE,
     body |-> << 1, 1, 0, 0, 1, 0, 0, 0, 0, 1, 1, 0, 0, 1, 0, 0, 0, 0, 0, 0, 0, 0, 0, 0, 1, 0, 0, 0, 0, 0, 0, 0,
              0, 0, 0, 0, 0 >>]

\* literal/length tree of the end-of-block code alone, empty distance tree
DynEmpty ==
    [btype |-> 2, align |-> FALSE,
     body |-> << 0, 0, 0, 0, 0, 0, 0, 0, 0, 0, 0, 1, 1, 1, 0, 0, 0, 0, 0, 0, 1, 0, 0, 0, 1, 0, 0, 0, 0, 0, 0, 0,
              0, 0, 0, 0, 0, 0, 0, 0, 0, 0, 0, 0, 0, 0, 0, 0, 0, 0, 0, 0, 0, 0, 0, 0, 0, 0, 0, 0, 0, 0, 0, 0,
              0, 0, 1, 0, 0, 1, 1, 1, 1, 1, 1, 1, 0, 1, 1, 0, 1, 0, 1, 1, 1, 1, 1, 0, 0 >>]

\* trees for 'A', 'B', 256, 257 and one distance code; A, B, length 3 at distance 1, end of block
DynAbbbb ==
    [btype |-> 2, align |-> FALSE,
     body |-> << 1, 0, 0, 0, 0, 0, 0, 0, 0, 0, 0, 1, 1, 1, 0, 0, 0, 0, 0, 0, 0, 1, 0, 0, 0, 0, 0, 0, 0, 0, 0, 0,
              0, 0, 0, 0, 0, 0, 0, 0, 0, 0, 0, 0, 0, 0, 0, 0, 0, 0, 0, 0, 0, 0, 1, 0, 0, 0, 0, 0, 1, 0, 0, 0,
              0, 0, 1, 0, 1, 1, 0, 1, 1, 0, 1, 1, 0, 0, 0, 1, 0, 1, 1, 1, 1, 1, 1, 1, 1, 1, 1, 1, 0, 0, 0, 1,
              0, 1, 0, 0, 1, 1, 0, 0, 0, 0, 1, 1, 0, 1, 1, 1, 0, 1, 0 >>]

\* HLIT 257, HDIST 1, HCLEN 4 and four code lengths of 0
DynZero ==
    [btype |-> 2, align |-> FALSE,
     body |-> << 0, 0, 0, 0, 0, 0, 0, 0, 0, 0, 0, 0, 0, 0, 0, 0, 0, 0, 0, 0, 0, 0, 0, 0, 0, 0 >>]

\* nothing after the header
Reserved ==
    [btype |-> 3, align |-> FALSE,
     body |-> <<  >>]

Library ==
    { StoredEmpty, StoredAb, StoredBadLen, FixedEmpty,
      FixedA, FixedRun, FixedBack, FixedLong,
      DynEmpty, DynAbbbb, DynZero, Reserved }

\* The blocks put in front of the last one: one of each block type.
Leading == { StoredEmpty, StoredAb, FixedA, DynAbbbb }

PadToByte(bits) == bits \o [i \in 1..((8 - (Len(bits) % 8)) % 8) |-> 0]

\* bits followed by the block: BFINAL, BTYPE (low bit first), the body.
EmitBlock(bits, item) ==
    Bind(bits \o << item[2], item[1].btype % 2, item[1].btype \div 2 >>,
         LAMBDA hdr : (IF item[1].align THEN PadToByte(hdr) ELSE hdr) \o item[1].body)

RECURSIVE EmitStream(_, _, _)
EmitStream(bits, stream, i) ==
    IF i > Len(stream) THEN bits
    ELSE Bind(EmitBlock(bits, stream[i]), LAMBDA b : EmitStream(b, stream, i + 1))

ByteAt(bits, k) ==
    bits[8 * k + 1] + 2 * bits[8 * k + 2] + 4 * bits[8 * k + 3] + 8 * bits[8 * k + 4]
    + 16 * bits[8 * k + 5] + 32 * bits[8 * k + 6] + 64 * bits[8 * k + 7]
    + 128 * bits[8 * k + 8]

PackBytes(bits) ==
    Bind(PadToByte(bits),
         LAMBDA padded : [k \in 1..(Len(padded) \div 8) |-> ByteAt(padded, k - 1)])

\* Up to MaxBlocks - 1 leading blocks without BFINAL and a last block with
\* either BFINAL, and a block with BFINAL followed by the bytes of another.
Streams ==
    { [i \in DOMAIN lead |-> << lead[i], 0 >>] \o << lastItem >> :
        lead \in UNION { [1..k -> Leading] : k \in 0..(MaxBlocks - 1) },
        lastItem \in Library \X {0, 1} }
    \cup { << << a, 1 >>, << b, 1 >> >> : a \in Leading, b \in Leading }

\* bytes without its last k bytes
Cut(bytes, k) == SubSeq(bytes, 1, Len(bytes) - k)

Sources ==
    { Cut(b, k) : b \in { PackBytes(EmitStream(<< >>, st, 1)) : st \in Streams },
                  k \in 0..MaxCut }

(***************************************************************************)
(* Status codes and markers                                                *)
(***************************************************************************)
TINF_OK == "TINF_OK"
TINF_DATA_ERROR == "TINF_DATA_ERROR"
TINF_BUF_ERROR == "TINF_BUF_ERROR"
NONE == "NONE"
\* A byte, table entry or local no code has stored to yet.
UNWRITTEN == -2

Pow2(n) == 2 ^ n

\* Bits lo..hi of a | b.
RECURSIVE BitOrBits(_, _, _, _)
BitOrBits(a, b, lo, hi) ==
    IF lo = hi
    THEN IF (a \div Pow2(lo)) % 2 = 1 \/ (b \div Pow2(lo)) % 2 = 1 THEN Pow2(lo) ELSE 0
    ELSE BitOrBits(a, b, lo, (lo + hi) \div 2)
         + BitOrBits(a, b, (lo + hi) \div 2 + 1, hi)

\* a | b on unsigned values below 2^31
BitOr(a, b) == BitOrBits(a, b, 0, 30)

Fault(s, what) == IF s.fault = NONE THEN [s EXCEPT !.fault = what] ELSE s

sourceEnd(s) == Len(s.sourceBytes)

destEnd(s) == s.destCap

(***************************************************************************)
(* Memory accesses.  A load or store outside the caller's regions is       *)
(* undefined; the model records it in `fault` and stops the call there.    *)
(***************************************************************************)
\* *(source + i)
LoadSource(s, i) ==
    IF i >= 0 /\ i < sourceEnd(s) THEN s.sourceBytes[i + 1] ELSE 0

CheckSource(s, i) ==
    IF i >= 0 /\ i < sourceEnd(s) THEN s ELSE Fault(s, "source_oob")

\* *(dest + i) as an rvalue
LoadDest(s, i) ==
    IF i >= 0 /\ i < destEnd(s) THEN s.destBytes[i + 1] ELSE 0

CheckDestLoad(s, i) ==
    IF i < 0 THEN Fault(s, "dest_before_start")
    ELSE IF i >= destEnd(s) THEN Fault(s, "dest_oob")
    ELSE IF s.destBytes[i + 1] = UNWRITTEN THEN Fault(s, "dest_uninit")
    ELSE s

\* *(dest + i) = v
StoreDest(s, i, v) ==
    IF i >= 0 /\ i < destEnd(s)
    THEN [s EXCEPT !.destBytes[i + 1] = v]
    ELSE Fault(s, "dest_oob")

(***************************************************************************)
(* Bit reader.  d.tag is a 32-bit unsigned int.  The shift in tinf_refill  *)
(* runs only while bitcount < n, and n is at most 13 (the widest field,    *)
(* the extra bits of a distance), so a byte is never shifted by more than  *)
(* 12 and no bit of the tag is lost.                                       *)
(***************************************************************************)
\* One pass of the while loop of tinf_refill.
RefillByte(s) ==
    IF s.source # sourceEnd(s)
    THEN Bind(LoadSource(s, s.source) * Pow2(s.bitcount),
              LAMBDA shifted : [CheckSource(s, s.source) EXCEPT
                                   !.tag = BitOr(s.tag, shifted),
                                   !.source = @ + 1,
                                   !.bitcount = @ + 8])
    ELSE [s EXCEPT !.overflow = 1, !.bitcount = @ + 8]

RECURSIVE tinf_refill(_, _)
tinf_refill(s, n) ==
    IF s.bitcount < n
    THEN Bind(RefillByte(s), LAMBDA x : tinf_refill(x, n))
    ELSE IF s.bitcount <= 32 THEN s ELSE Fault(s, "assert")

tinf_getbits_no_refill(s, n) ==
    IF n >= 0 /\ n <= s.bitcount
    THEN [s    |-> [s EXCEPT !.tag = @ \div Pow2(n), !.bitcount = @ - n],
          bits |-> s.tag % Pow2(n)]
    ELSE [s |-> Fault(s, "assert"), bits |-> 0]

tinf_getbits(s, n) ==
    IF n >= 0 /\ n <= 32
    THEN Bind(tinf_refill(s, n), LAMBDA r : tinf_getbits_no_refill(r, n))
    ELSE [s |-> Fault(s, "assert"), bits |-> 0]

tinf_getbits_base(s, n, base) ==
    IF n # 0
    THEN Bind(tinf_getbits(s, n), LAMBDA g : [s |-> g.s, bits |-> base + g.bits])
    ELSE [s |-> s, bits |-> base]

(***************************************************************************)
(* Huffman trees                                                           *)
(***************************************************************************)
\* The trees of a struct tinf_data on the stack, before anything is built.
UninitTree ==
    [table   |-> [i \in 0..15 |-> UNWRITTEN],
     trans   |-> [i \in 0..287 |-> UNWRITTEN],
     max_sym |-> UNWRITTEN]

FixedLtree ==
    [table   |-> [i \in 0..15 |-> CASE i = 7 -> 24 [] i = 8 -> 152 [] i = 9 -> 112
                                    [] OTHER -> 0],
     trans   |-> [i \in 0..287 |->
                     IF i < 24 THEN 256 + i
                     ELSE IF i < 24 + 144 THEN i - 24
                     ELSE IF i < 24 + 144 + 8 THEN 280 + (i - 24 - 144)
                     ELSE 144 + (i - 24 - 144 - 8)],
     max_sym |-> 285]

\* trans[32..287] of the distance tree keep what they held before.
FixedDtree(old) ==
    [table   |-> [i \in 0..15 |-> IF i = 5 THEN 32 ELSE 0],
     trans   |-> [i \in 0..287 |-> IF i < 32 THEN i ELSE old.trans[i]],
     max_sym |-> 29]

tinf_build_fixed_trees(s) ==
    [s EXCEPT !.ltree = FixedLtree, !.dtree = FixedDtree(s.dtree)]

\* assert(num <= 288) and assert(lengths[i] <= 15) of tinf_build_tree, the
\* lengths being unsigned and read only where they were stored.
BuildAsserts(s, lens, n) ==
    IF n <= 288 /\ \A i \in 0..(n - 1) : lens[i] >= 0 /\ lens[i] <= 15
    THEN s ELSE Fault(s, "assert_build")

\* The scan of the symbol lengths, t->table[lengths[i]]++ for i < n, and the
\* t->table[0] = 0 that follows it.
CountLengths(lens, n) ==
    [l \in 0..15 |->
        IF l = 0 THEN 0 ELSE Cardinality({i \in 0..(n - 1) : lens[i] = l})]

\* max_sym after the scan: the last i with lengths[i] # 0, or -1.
ScanMaxSym(lens, n) ==
    Bind({i \in 0..(n - 1) : lens[i] # 0},
         LAMBDA nz : IF nz = {} THEN -1 ELSE CHOOSE i \in nz : \A j \in nz : j <= i)

\* One pass of the offset loop, for entry i: x is [ok, max, sum, offs], ok
\* FALSE once the loop was left by its return.
OffsetPass(x, table, i) ==
    IF table[i] > x.max
    THEN [x EXCEPT !.ok = FALSE]
    ELSE [ok   |-> TRUE,
          max  |-> 2 * (x.max - table[i]),
          sum  |-> x.sum + table[i],
          offs |-> [x.offs EXCEPT ![i] = x.sum]]

\* The passes lo .. hi - 1 of the offset loop.
RECURSIVE OffsetPasses(_, _, _, _)
OffsetPasses(x, table, lo, hi) ==
    IF ~x.ok \/ hi <= lo THEN x
    ELSE IF hi = lo + 1 THEN OffsetPass(x, table, lo)
    ELSE Bind(OffsetPasses(x, table, lo, (lo + hi) \div 2),
              LAMBDA y : OffsetPasses(y, table, (lo + hi) \div 2, hi))

\* The offset loop: [ok, max, sum, offs].
OffsetLoop(table) ==
    OffsetPasses([ok |-> TRUE, max |-> 1, sum |-> 0, offs |-> [i \in 0..15 |-> 0]],
                 table, 0, 16)

\* BadCode without the case of a single code: any single code passes.
BadCodeIncompleteOnly(sum, max, table) == sum > 1 /\ max > 0

\* if ((sum > 1 && max > 0) || (sum == 1 && t->table[1] != 1))
BadCode(sum, max, table) == (sum > 1 /\ max > 0) \/ (sum = 1 /\ table[1] # 1)

\* Where the translation loop puts symbol i: after the offs[lengths[i]] codes
\* that are shorter and the symbols below i of its own length.
TransAt(offs, lens, nz) ==
    [i \in nz |-> offs[lens[i]] + Cardinality({j \in nz : lens[j] = lens[i] /\ j < i})]

\* The translation loop, trans[offs[lengths[i]]++] = i for the i in ascending
\* order with lengths[i] # 0.
TransLoop(trans, offs, lens, n) ==
    Bind({i \in 0..(n - 1) : lens[i] # 0},
         LAMBDA nz :
             Bind(TransAt(offs, lens, nz),
                  LAMBDA at :
                      [k \in 0..287 |->
                          IF \E i \in nz : at[i] = k
                          THEN CHOOSE i \in nz : at[i] = k
                          ELSE trans[k]]))

\* The part of tinf_build_tree after the offset loop returned o.
BuildAfterOffsets(t, lens, n, table, ms, o) ==
    IF ~o.ok \/ BadCode(o.sum, o.max, table)
    THEN [res |-> TINF_DATA_ERROR, t |-> [t EXCEPT !.table = table, !.max_sym = ms]]
    ELSE Bind(TransLoop(t.trans, o.offs, lens, n),
              LAMBDA tr :
                  IF o.sum = 1
                  THEN [res |-> TINF_OK,
                        t   |-> [table   |-> [table EXCEPT ![1] = 2],
                                 trans   |-> [tr EXCEPT ![1] = ms + 1],
                                 max_sym |-> ms]]
                  ELSE [res |-> TINF_OK,
                        t   |-> [table |-> table, trans |-> tr, max_sym |-> ms]])

\* tinf_build_tree(t, lengths, num): [res, t]
tinf_build_tree(t, lens, n) ==
    Bind(CountLengths(lens, n),
         LAMBDA table :
             Bind(OffsetLoop(table),
                  LAMBDA o :
                      Bind(ScanMaxSym(lens, n),
                           LAMBDA ms : BuildAfterOffsets(t, lens, n, table, ms, o))))

\* One pass of the do-while of tinf_decode_symbol: x is [s, sum, cur, len,
\* more], more TRUE while the loop goes on.
DecodePass(x, t) ==
    Bind(tinf_getbits(x.s, 1),
         LAMBDA g :
             IF x.len + 1 > 15
             THEN [x EXCEPT !.s = Fault(g.s, "assert_len"), !.len = @ + 1,
                            !.more = FALSE]
             ELSE IF t.table[x.len + 1] = UNWRITTEN
             THEN [x EXCEPT !.s = Fault(g.s, "table_uninit"), !.len = @ + 1,
                            !.more = FALSE]
             ELSE [s    |-> g.s,
                   sum  |-> x.sum + t.table[x.len + 1],
                   cur  |-> 2 * x.cur + g.bits - t.table[x.len + 1],
                   len  |-> x.len + 1,
                   more |-> 2 * x.cur + g.bits - t.table[x.len + 1] >= 0])

\* Up to k passes of the do-while.
RECURSIVE DecodePasses(_, _, _)
DecodePasses(x, t, k) ==
    IF ~x.more THEN x
    ELSE IF k = 1 THEN DecodePass(x, t)
    ELSE Bind(DecodePasses(x, t, k \div 2),
              LAMBDA y : DecodePasses(y, t, k - k \div 2))

\* The do-while of tinf_decode_symbol; its sixteenth pass fails the assert.
DecodeLoop(s, t) ==
    DecodePasses([s |-> s, sum |-> 0, cur |-> 0, len |-> 0, more |-> TRUE], t, 16)

\* What follows the do-while left in x: [s, sym, len].
DecodeAt(x, t) ==
    IF x.s.fault # NONE THEN [s |-> x.s, sym |-> 0, len |-> x.len]
    ELSE IF x.sum + x.cur >= 0 /\ x.sum + x.cur < 288
    THEN [s   |-> IF t.trans[x.sum + x.cur] = UNWRITTEN
                  THEN Fault(x.s, "trans_uninit") ELSE x.s,
          sym |-> t.trans[x.sum + x.cur], len |-> x.len]
    ELSE [s |-> Fault(x.s, "assert_index"), sym |-> 0, len |-> x.len]

tinf_decode_symbol(s, t) == Bind(DecodeLoop(s, t), LAMBDA x : DecodeAt(x, t))
(***************************************************************************)
(* Dynamic trees: tinf_decode_trees, cut at its code-length loop.  Each    *)
(* part gives [s, res]; res is NONE while the function has not returned.   *)
(***************************************************************************)
clcidx == << 16, 17, 18, 0, 8, 7, 9, 6, 10, 5, 11, 4, 12, 3, 13, 2, 14, 1, 15 >>

\* One pass of the loop reading the code lengths of the code length alphabet,
\* for entry i: x is [s, lens].
ReadClen(x, i) ==
    Bind(tinf_getbits(x.s, 3),
         LAMBDA g : [s |-> g.s, lens |-> [x.lens EXCEPT ![clcidx[i + 1]] = g.bits]])

\* The passes lo .. hi - 1 of that loop.
RECURSIVE ReadClenPasses(_, _, _)
ReadClenPasses(x, lo, hi) ==
    IF x.s.fault # NONE \/ hi <= lo THEN x
    ELSE IF hi = lo + 1 THEN ReadClen(x, lo)
    ELSE Bind(ReadClenPasses(x, lo, (lo + hi) \div 2),
              LAMBDA y : ReadClenPasses(y, (lo + hi) \div 2, hi))

\* The loop reading hclen 3-bit code lengths: [s, lens].
ReadClens(s, lens, hclen) == ReadClenPasses([s |-> s, lens |-> lens], 0, hclen)

\* EmptyTree with the comparison left out: no tree counts as empty.
EmptyTreeUnchecked(t) == FALSE

\* if (lt->max_sym == -1), if (dt->max_sym == -1)
EmptyTree(t) == t.max_sym = -1

\* The code-length tree b was built from the lengths r read.
DecodeTreesBuilt(r, b) ==
    Bind([BuildAsserts(r.s, r.lens, 19) EXCEPT
              !.lengths = r.lens, !.ltree = b.t, !.num = 0],
         LAMBDA s4 :
             IF b.res # TINF_OK THEN [s |-> s4, res |-> b.res]
             ELSE IF EmptyTree(b.t) THEN [s |-> s4, res |-> TINF_DATA_ERROR]
             ELSE [s |-> s4, res |-> NONE])

\* HLIT, HDIST and HCLEN were read, s is the state after them.
DecodeTreesRead(s, hl, hd, hclen) ==
    IF hl > 286 \/ hd > 30
    THEN [s |-> [s EXCEPT !.hlit = hl, !.hdist = hd], res |-> TINF_DATA_ERROR]
    ELSE Bind(ReadClens([s EXCEPT !.hlit = hl, !.hdist = hd],
                        [i \in 0..319 |-> IF i < 19 THEN 0 ELSE UNWRITTEN],
                        hclen),
              LAMBDA r :
                  Bind(tinf_build_tree(r.s.ltree, r.lens, 19),
                       LAMBDA b : DecodeTreesBuilt(r, b)))

\* Up to the code-length loop.
tinf_decode_trees_head(s) ==
    Bind(tinf_getbits_base(s, 5, 257),
         LAMBDA g1 :
             Bind(tinf_getbits_base(g1.s, 5, 1),
                  LAMBDA g2 :
                      Bind(tinf_getbits_base(g2.s, 4, 4),
                           LAMBDA g3 : DecodeTreesRead(g3.s, g1.bits, g2.bits, g3.bits))))

\* while (length--) lengths[num++] = sym
FillLengths(lens, n, sym, length) ==
    [i \in DOMAIN lens |-> IF i >= n /\ i < n + length THEN sym ELSE lens[i]]

\* DecodeTreesFill with num left where it was.
DecodeTreesFillStuck(s, val, length) ==
    IF length > s.hlit + s.hdist - s.num
    THEN [s |-> s, res |-> TINF_DATA_ERROR]
    ELSE [s   |-> [s EXCEPT !.lengths = FillLengths(@, s.num, val, length)],
          res |-> NONE]

\* The switch of the code-length loop read the repeat count: store val
\* length times.
DecodeTreesFill(s, val, length) ==
    IF length > s.hlit + s.hdist - s.num
    THEN [s |-> s, res |-> TINF_DATA_ERROR]
    ELSE [s   |-> [s EXCEPT !.lengths = FillLengths(@, s.num, val, length),
                            !.num = @ + length],
          res |-> NONE]

\* One pass of the code-length loop, after sym was decoded.
DecodeTreesSym(s, sym) ==
    IF sym > s.ltree.max_sym THEN [s |-> s, res |-> TINF_DATA_ERROR]
    ELSE IF sym = 16 /\ s.num = 0 THEN [s |-> s, res |-> TINF_DATA_ERROR]
    ELSE IF sym = 16
    THEN Bind(tinf_getbits_base(s, 2, 3),
              LAMBDA g : DecodeTreesFill(g.s, s.lengths[s.num - 1], g.bits))
    ELSE IF sym = 17
    THEN Bind(tinf_getbits_base(s, 3, 3), LAMBDA g : DecodeTreesFill(g.s, 0, g.bits))
    ELSE IF sym = 18
    THEN Bind(tinf_getbits_base(s, 7, 11), LAMBDA g : DecodeTreesFill(g.s, 0, g.bits))
    ELSE DecodeTreesFill(s, sym, 1)

\* One pass of the code-length loop (num < hlit + hdist).
tinf_decode_trees_step(s) ==
    Bind(tinf_decode_symbol(s, s.ltree), LAMBDA dec : DecodeTreesSym(dec.s, dec.sym))

\* The literal/length tree bl was built: build the distance tree.
DecodeTreesDist(s, bl) ==
    IF bl.res # TINF_OK THEN [s |-> [s EXCEPT !.ltree = bl.t], res |-> bl.res]
    ELSE Bind([i \in 0..(s.hdist - 1) |-> s.lengths[s.hlit + i]],
              LAMBDA shifted :
                  Bind(tinf_build_tree(s.dtree, shifted, s.hdist),
                       LAMBDA bd : [s   |-> [BuildAsserts(s, shifted, s.hdist) EXCEPT
                                                !.ltree = bl.t, !.dtree = bd.t],
                                    res |-> bd.res]))

\* After the code-length loop.
tinf_decode_trees_tail(s) ==
    IF s.lengths[256] = 0 THEN [s |-> s, res |-> TINF_DATA_ERROR]
    ELSE Bind(tinf_build_tree(s.ltree, s.lengths, s.hlit),
              LAMBDA bl : DecodeTreesDist(BuildAsserts(s, s.lengths, s.hlit), bl))

(***************************************************************************)
(* Block inflaters                                                         *)
(***************************************************************************)
length_bits == << 0, 0, 0, 0, 0, 0, 0, 0, 1, 1,
                 1, 1, 2, 2, 2, 2, 3, 3, 3, 3,
                 4, 4, 4, 4, 5, 5, 5, 5, 0, 127 >>

length_base == <<  3,  4,  5,   6,   7,   8,   9,  10,  11,  13,
                  15, 17, 19,  23,  27,  31,  35,  43,  51,  59,
                  67, 83, 99, 115, 131, 163, 195, 227, 258,   0 >>

dist_bits == << 0, 0,  0,  0,  1,  1,  2,  2,  3,  3,
               4, 4,  5,  5,  6,  6,  7,  7,  8,  8,
               9, 9, 10, 10, 11, 11, 12, 12, 13, 13 >>

dist_base == <<    1,    2,    3,    4,    5,    7,    9,    13,    17,    25,
                  33,   49,   65,   97,  129,  193,  257,   385,   513,   769,
                1025, 1537, 2049, 3073, 4097, 6145, 8193, 12289, 16385, 24577 >>

\* What a step started from, kept for the properties.
Pre(s) ==
    [source |-> s.source, bitcount |-> s.bitcount, tag |-> s.tag,
     overflow |-> s.overflow, dest |-> s.dest, destLen |-> s.destLen,
     destBytes |-> s.destBytes]

\* s with the history of the step that led from s0 to it.
Did(s0, s, kind, sym, length, offs) ==
    [s EXCEPT !.last = [kind |-> kind, sym |-> sym, length |-> length,
                        offs |-> offs, pre |-> Pre(s0)]]

\* d->dest[i] = d->dest[i - offs]
CopyByte(s, i, offs) ==
    StoreDest(CheckDestLoad(s, s.dest + i - offs), s.dest + i,
              LoadDest(s, s.dest + i - offs))

\* CopyMatch as a copy between regions taken not to overlap: every byte is
\* loaded from dest as it was before the copy.
CopyMatchSnapshot(s, length, offs, i) ==
    [s EXCEPT !.destBytes =
        [k \in DOMAIN @ |->
            IF k > s.dest + i /\ k <= s.dest + length /\ k - offs >= 1
            THEN s.destBytes[k - offs] ELSE @[k]]]

\* The passes lo .. hi - 1 of the copy loop.
RECURSIVE CopyPasses(_, _, _, _)
CopyPasses(s, offs, lo, hi) ==
    IF s.fault # NONE \/ hi <= lo THEN s
    ELSE IF hi = lo + 1 THEN CopyByte(s, lo, offs)
    ELSE Bind(CopyPasses(s, offs, lo, (lo + hi) \div 2),
              LAMBDA x : CopyPasses(x, offs, (lo + hi) \div 2, hi))

\* for (i = 0; i < length; ++i) d->dest[i] = d->dest[i - offs], from i on
CopyMatch(s, length, offs, i) == CopyPasses(s, offs, i, length)

\* OffsTooFar with offs compared to the size of the dest region.
OffsBeyondRegion(s, offs) == offs > destEnd(s)

\* if (offs > d->destLen)
OffsTooFar(s, offs) == offs > s.destLen

\* DestFull with the room taken one byte larger than it is.
DestFullLax(s, length) == destEnd(s) - s.dest + 1 < length

\* if (d->destEnd - d->dest < length)
DestFull(s, length) == destEnd(s) - s.dest < length

\* The match (length, offs) was read, s is the state after it.
InflateMatch(s0, s, sym, length, offs) ==
    IF OffsTooFar(s, offs)
    THEN [s |-> Did(s0, s, "bad_offs", sym, length, offs), res |-> TINF_DATA_ERROR]
    ELSE IF DestFull(s, length)
    THEN [s |-> Did(s0, s, "match_full", sym, length, offs), res |-> TINF_BUF_ERROR]
    ELSE Bind(CopyMatch(s, length, offs, 0),
              LAMBDA c : [s   |-> Did(s0, [c EXCEPT !.dest = @ + length,
                                                    !.destLen = @ + length],
                                      "match", sym, length, offs),
                          res |-> NONE])

\* The distance symbol dist was decoded, s is the state after it.
InflateDist(s0, s, sym, length, dist) ==
    IF dist > s.dtree.max_sym \/ dist > 29
    THEN [s |-> Did(s0, s, "bad_dist", sym, length, 0), res |-> TINF_DATA_ERROR]
    ELSE Bind(tinf_getbits_base(s, dist_bits[dist + 1], dist_base[dist + 1]),
              LAMBDA go : InflateMatch(s0, go.s, sym, length, go.bits))

\* The else branch of the symbol loop: sym is a length symbol.
InflateLength(s0, s, sym) ==
    IF sym > s.ltree.max_sym \/ sym - 257 > 28 \/ EmptyTree(s.dtree)
    THEN [s |-> Did(s0, s, "bad_length", sym, 0, 0), res |-> TINF_DATA_ERROR]
    ELSE Bind(tinf_getbits_base(s, length_bits[sym - 257 + 1],
                                length_base[sym - 257 + 1]),
              LAMBDA gl :
                  Bind(tinf_decode_symbol(gl.s, gl.s.dtree),
                       LAMBDA dd : InflateDist(s0, dd.s, sym, gl.bits, dd.sym)))

\* The literal branch of the symbol loop.
InflateLiteral(s0, s, sym) ==
    IF s.dest = destEnd(s)
    THEN [s |-> Did(s0, s, "literal_full", sym, 0, 0), res |-> TINF_BUF_ERROR]
    ELSE [s   |-> Did(s0, [StoreDest(s, s.dest, sym) EXCEPT
                              !.dest = @ + 1, !.destLen = @ + 1],
                      "literal", sym, 1, 0),
          res |-> NONE]

\* One pass of the symbol loop, after sym was decoded.
InflateSym(s0, s, sym) ==
    IF s.overflow # 0
    THEN [s |-> Did(s0, s, "overflow", sym, 0, 0), res |-> TINF_DATA_ERROR]
    ELSE IF sym = 256
    THEN [s |-> Did(s0, s, "eob", sym, 0, 0), res |-> TINF_OK]
    ELSE IF sym < 256 THEN InflateLiteral(s0, s, sym)
    ELSE InflateLength(s0, s, sym)

\* One pass of the symbol loop: [s, res]; res is NONE when the loop goes on.
tinf_inflate_block_data(s) ==
    Bind(tinf_decode_symbol(s, s.ltree), LAMBDA dec : InflateSym(s, dec.s, dec.sym))

read_le16(s, p) == BitOr(LoadSource(s, p), LoadSource(s, p + 1) * Pow2(8))

\* *d->dest++ = *d->source++
CopyStoredByte(s) ==
    [StoreDest(CheckSource(s, s.source), s.dest, LoadSource(s, s.source)) EXCEPT
        !.dest = @ + 1, !.source = @ + 1]

\* for (i = length; i; --i) *d->dest++ = *d->source++, i passes of it
RECURSIVE CopyStored(_, _)
CopyStored(s, i) ==
    IF s.fault # NONE \/ i <= 0 THEN s
    ELSE IF i = 1 THEN CopyStoredByte(s)
    ELSE Bind(CopyStored(s, i \div 2), LAMBDA x : CopyStored(x, i - i \div 2))

\* if (d->sourceEnd - d->source < 4)
StoredHeaderShort(s) == sourceEnd(s) - s.source < 4

\* StoredCopy with the bit buffer left as it was.
StoredCopyKeepsBits(s0, s, length) ==
    IF sourceEnd(s) - s.source < length
    THEN [s |-> Did(s0, s, "stored_trunc", 0, length, 0), res |-> TINF_DATA_ERROR]
    ELSE IF destEnd(s) - s.dest < length
    THEN [s |-> Did(s0, s, "stored_full", 0, length, 0), res |-> TINF_BUF_ERROR]
    ELSE Bind(CopyStored(s, length),
              LAMBDA c : [s   |-> Did(s0, [c EXCEPT !.destLen = @ + length],
                                      "stored", 0, length, 0),
                          res |-> TINF_OK])

\* LEN was read and checked, s is the state after d->source += 4.
StoredCopy(s0, s, length) ==
    IF sourceEnd(s) - s.source < length
    THEN [s |-> Did(s0, s, "stored_trunc", 0, length, 0), res |-> TINF_DATA_ERROR]
    ELSE IF DestFull(s, length)
    THEN [s |-> Did(s0, s, "stored_full", 0, length, 0), res |-> TINF_BUF_ERROR]
    ELSE Bind(CopyStored(s, length),
              LAMBDA c : [s   |-> Did(s0, [c EXCEPT !.tag = 0, !.bitcount = 0,
                                                    !.destLen = @ + length],
                                      "stored", 0, length, 0),
                          res |-> TINF_OK])

\* LEN and NLEN were read, c is the state after the four loads.
StoredLengths(s0, c, length, invlength) ==
    IF length # (Pow2(16) - 1) - (invlength % Pow2(16))
    THEN [s |-> Did(s0, c, "stored_badlen", 0, length, 0), res |-> TINF_DATA_ERROR]
    ELSE Bind([c EXCEPT !.source = @ + 4], LAMBDA s1 : StoredCopy(s0, s1, length))

\* [s, res]
tinf_inflate_uncompressed_block(s) ==
    IF StoredHeaderShort(s)
    THEN [s |-> Did(s, s, "stored_short", 0, 0, 0), res |-> TINF_DATA_ERROR]
    ELSE Bind(CheckSource(CheckSource(CheckSource(CheckSource(s,
                  s.source), s.source + 1), s.source + 2), s.source + 3),
              LAMBDA c : Bind(<< read_le16(s, s.source), read_le16(s, s.source + 2) >>,
                              LAMBDA w : StoredLengths(s, c, w[1], w[2])))

tinf_inflate_fixed_block(s) == tinf_build_fixed_trees(s)

(***************************************************************************)
(* tinf_uncompress                                                         *)
(***************************************************************************)
\* tinf_uncompress_init with *destLen left as the caller set it.
InitKeepsDestLen(s) ==
    [s EXCEPT !.source = 0, !.tag = 0, !.bitcount = 0, !.overflow = 0,
              !.dest = 0, !.destLen = 0, !.pc = "header"]

\* The initialisation, up to the do-while.
tinf_uncompress_init(s) ==
    [s EXCEPT !.source = 0, !.tag = 0, !.bitcount = 0, !.overflow = 0,
              !.dest = 0, !.destLen = 0, !.destLenOut = 0, !.pc = "header"]

\* What follows the do-while, which the block with BFINAL set was left by.
AfterLoop(s) ==
    IF s.overflow # 0 THEN [s EXCEPT !.res = TINF_DATA_ERROR, !.pc = "done"]
    ELSE [s EXCEPT !.destLenOut = s.destLen, !.res = TINF_OK, !.pc = "done"]

\* BlockReturned with the loop going on while BFINAL is set.
BlockReturnedInverted(h, r) ==
    IF r # TINF_OK THEN [h EXCEPT !.res = r, !.pc = "done"]
    ELSE IF h.bfinal # 0 THEN [h EXCEPT !.pc = "header"]
    ELSE AfterLoop(h)

\* A block function returned r: the rest of the do-while body, its condition,
\* and what follows the loop.  h is s with r in its history.
BlockReturned(h, r) ==
    IF r # TINF_OK THEN [h EXCEPT !.res = r, !.pc = "done"]
    ELSE IF h.bfinal = 0 THEN [h EXCEPT !.pc = "header"]
    ELSE AfterLoop(h)

BlockReturn(s, r) ==
    Bind([s EXCEPT !.hist[Len(s.hist)].res = r], LAMBDA h : BlockReturned(h, r))

\* r is [s, res], res NONE while the block function has not returned.
BlockStep(r, next) ==
    IF r.res = NONE THEN [r.s EXCEPT !.pc = next] ELSE BlockReturn(r.s, r.res)

\* switch (btype)
Dispatch(s, btype) ==
    CASE btype = 0 -> [s EXCEPT !.pc = "stored"]
      [] btype = 1 -> [s EXCEPT !.pc = "fixed"]
      [] btype = 2 -> [s EXCEPT !.pc = "dynamic"]
      [] OTHER     -> BlockReturn(s, TINF_DATA_ERROR)

\* The header read gave bf and btype; s0 is the state before the reads.
HeaderRead(s0, s, bf, btype) ==
    Bind(Did(s0, [s EXCEPT !.bfinal = bf,
                           !.hist = Append(@, [bfinal |-> bf, btype |-> btype,
                                               at |-> 8 * s0.source - s0.bitcount,
                                               res |-> NONE])],
             "header", btype, 0, 0),
         LAMBDA s2 : Dispatch(s2, btype))

\* The two header reads and the switch on btype.
tinf_uncompress_header(s) ==
    Bind(tinf_getbits(s, 1),
         LAMBDA g1 : Bind(tinf_getbits(g1.s, 2),
                          LAMBDA g2 : HeaderRead(s, g2.s, g1.bits, g2.bits)))

\* The code-length loop and what follows it.
DecodeTreesLoop(s) ==
    IF s.num < s.hlit + s.hdist
    THEN Bind(tinf_decode_trees_step(s), LAMBDA r : BlockStep(r, "rle"))
    ELSE Bind(tinf_decode_trees_tail(s),
              LAMBDA r : IF r.res = TINF_OK THEN [r.s EXCEPT !.pc = "sym"]
                         ELSE BlockReturn(r.s, r.res))

\* An undefined access or a failed assert ends the modelled call.
Stop(s) == IF s.fault # NONE THEN [s EXCEPT !.pc = "fault"] ELSE s

Go(s) ==
    CASE s.pc = "entry"   -> tinf_uncompress_init(s)
      [] s.pc = "header"  -> tinf_uncompress_header(s)
      [] s.pc = "stored"  -> Bind(tinf_inflate_uncompressed_block(s),
                                  LAMBDA r : BlockStep(r, "header"))
      [] s.pc = "fixed"   -> [tinf_inflate_fixed_block(s) EXCEPT !.pc = "sym"]
      [] s.pc = "dynamic" -> Bind(tinf_decode_trees_head(s),
                                  LAMBDA r : BlockStep(r, "rle"))
      [] s.pc = "rle"     -> DecodeTreesLoop(s)
      [] s.pc = "sym"     -> Bind(tinf_inflate_block_data(s),
                                  LAMBDA r : BlockStep(r, "sym"))
      [] OTHER            -> s

\* One step of the call from state s.
Step(s) == Bind(Go(s), LAMBDA n : Stop(n))

\* The call run from state s for k steps, or to its end if that comes first.
RECURSIVE RunFor(_, _)
RunFor(s, k) ==
    IF s.pc \in {"done", "fault"} THEN s
    ELSE IF k = 1 THEN Step(s)
    ELSE Bind(RunFor(s, k \div 2), LAMBDA n : RunFor(n, k - k \div 2))

\* The call run from state s to its end: no call of the input set takes more
\* than MaxSteps steps.
Run(s) == RunFor(s, MaxSteps)

\* The state of a call about to start.
Call(bytes, cap) ==
    [sourceBytes |-> bytes, destCap |-> cap,
     destBytes |-> [i \in 1..cap |-> UNWRITTEN], destLenOut |-> cap,
     source |-> UNWRITTEN, tag |-> UNWRITTEN, bitcount |-> UNWRITTEN,
     overflow |-> UNWRITTEN, dest |-> UNWRITTEN, destLen |-> UNWRITTEN,
     ltree |-> UninitTree, dtree |-> UninitTree, bfinal |-> UNWRITTEN,
     res |-> NONE, lengths |-> [i \in 0..319 |-> UNWRITTEN],
     hlit |-> UNWRITTEN, hdist |-> UNWRITTEN, num |-> UNWRITTEN,
     pc |-> "entry", fault |-> NONE, hist |-> << >>,
     last |-> [kind |-> "none", sym |-> 0, length |-> 0, offs |-> 0,
               pre |-> [source |-> 0, bitcount |-> 0, tag |-> 0, overflow |-> 0,
                        dest |-> 0, destLen |-> 0, destBytes |-> << >>]]]

(***************************************************************************)
(* The state machine                                                       *)
(***************************************************************************)
Cur ==
    [sourceBytes |-> sourceBytes, destCap |-> destCap, destBytes |-> destBytes,
     destLenOut |-> destLenOut, source |-> source, tag |-> tag,
     bitcount |-> bitcount, overflow |-> overflow, dest |-> dest,
     destLen |-> destLen, ltree |-> ltree, dtree |-> dtree, bfinal |-> bfinal,
     res |-> res, lengths |-> lengths, hlit |-> hlit, hdist |-> hdist,
     num |-> num, pc |-> pc, fault |-> fault, hist |-> hist, last |-> last]

Set(s) ==
    /\ sourceBytes' = s.sourceBytes /\ destCap' = s.destCap
    /\ destBytes' = s.destBytes /\ destLenOut' = s.destLenOut
    /\ source' = s.source /\ tag' = s.tag /\ bitcount' = s.bitcount
    /\ overflow' = s.overflow /\ dest' = s.dest /\ destLen' = s.destLen
    /\ ltree' = s.ltree /\ dtree' = s.dtree /\ bfinal' = s.bfinal
    /\ res' = s.res /\ lengths' = s.lengths /\ hlit' = s.hlit
    /\ hdist' = s.hdist /\ num' = s.num /\ pc' = s.pc /\ fault' = s.fault
    /\ hist' = s.hist /\ last' = s.last

Start(s) ==
    /\ sourceBytes = s.sourceBytes /\ destCap = s.destCap
    /\ destBytes = s.destBytes /\ destLenOut = s.destLenOut
    /\ source = s.source /\ tag = s.tag /\ bitcount = s.bitcount
    /\ overflow = s.overflow /\ dest = s.dest /\ destLen = s.destLen
    /\ ltree = s.ltree /\ dtree = s.dtree /\ bfinal = s.bfinal
    /\ res = s.res /\ lengths = s.lengths /\ hlit = s.hlit
    /\ hdist = s.hdist /\ num = s.num /\ pc = s.pc /\ fault = s.fault
    /\ hist = s.hist /\ last = s.last

\* The step from the current state.
Take == \E s \in {Cur} : \E n \in {Step(s)} : Set(n) /\ ample' = ample

\* Room for whatever a source of the input set decodes to: no block of the
\* library decodes to more than MaxCap bytes.
AmpleCap == MaxCap * MaxBlocks

\* The status and the length the call gives for bytes with ample room.
Ample(bytes) ==
    Bind(Run(Call(bytes, AmpleCap)), LAMBDA r : [res |-> r.res, destLen |-> r.destLenOut])

Init ==
    \E bytes \in Sources :
        \E a \in {Ample(bytes)} :
            \E cap \in 0..MaxCap :
                \E s \in {Call(bytes, cap)} : Start(s) /\ ample = a

Enter == pc = "entry" /\ Take

Header == pc = "header" /\ Take

Stored == pc = "stored" /\ Take

Fixed == pc = "fixed" /\ Take

Dynamic == pc = "dynamic" /\ Take

CodeLength == pc = "rle" /\ num < hlit + hdist /\ Take

BuildTrees == pc = "rle" /\ num >= hlit + hdist /\ Take

Symbol == pc = "sym" /\ Take

Next ==
    \/ Enter
    \/ Header
    \/ Stored
    \/ Fixed
    \/ Dynamic
    \/ CodeLength
    \/ BuildTrees
    \/ Symbol

Spec == Init /\ [][Next]_vars

(***************************************************************************)
(* tinf_build_tree on its own: one call on a vector of up to MaxNum code   *)
(* lengths, each 0..MaxBits or the longest length a code can have.         *)
(***************************************************************************)
MaxNum == 5
MaxBits == 3

\* The longest code length, lengths[i] <= 15.
LongestCode == 15

LengthVectors ==
    UNION { [0..(n - 1) -> 0..MaxBits \cup {LongestCode}] : n \in 0..MaxNum }

\* The state of a call of tinf_build_tree(&d.ltree, lengths, num) about to start.
BuildCall(lens) ==
    [Call(<< >>, 0) EXCEPT
        !.lengths = [i \in 0..319 |-> IF i \in DOMAIN lens THEN lens[i] ELSE UNWRITTEN],
        !.num = Cardinality(DOMAIN lens),
        !.pc = "build"]

\* The call: its result is put in res and the tree in ltree.
BuildDone(s) ==
    Bind(tinf_build_tree(s.ltree, s.lengths, s.num),
         LAMBDA b : Stop([BuildAsserts(s, s.lengths, s.num) EXCEPT
                             !.ltree = b.t, !.res = b.res, !.pc = "built"]))

InitBuild ==
    \E lens \in LengthVectors :
        \E s \in {BuildCall(lens)} : Start(s) /\ ample = [res |-> NONE, destLen |-> 0]

BuildTree ==
    pc = "build" /\ \E s \in {Cur} : \E n \in {BuildDone(s)} : Set(n) /\ ample' = ample

NextBuild == BuildTree

SpecBuild == InitBuild /\ [][NextBuild]_vars

\* The calls of Spec without the history of the call with ample room, every
\* step being taken in the end: the C code runs on until it returns.
InitCall ==
    \E bytes \in Sources, cap \in 0..MaxCap :
        \E s \in {Call(bytes, cap)} : Start(s) /\ ample = [res |-> NONE, destLen |-> 0]

FairSpec == InitCall /\ [][Next]_vars /\ WF_vars(Next)

(***************************************************************************)
(* Properties                                                              *)
(***************************************************************************)
MemoryFaults == { "source_oob", "dest_oob", "dest_before_start", "dest_uninit" }

\* C1: whatever the source, the capacity and the status returned, no load is
\* made at or beyond the end of the source region, no store at or beyond the
\* end of the dest region and no load before its start; the cursors stay
\* inside their regions, dest_written is the distance of the dest cursor from
\* the start, and a match copy runs only with offs <= dest_written.
MemorySafe ==
    /\ fault \notin MemoryFaults
    /\ pc # "entry" =>
          /\ source >= 0 /\ source <= Len(sourceBytes)
          /\ dest >= 0 /\ dest <= destCap
          /\ destLen = dest
    /\ last.kind = "match" => last.offs >= 1 /\ last.offs <= last.pre.destLen

\* C1 witness: a match copy that reads from the very start of the dest region.
MemorySafeWitness ==
    /\ last.kind = "match"
    /\ last.offs = last.pre.destLen
    /\ fault = NONE

\* The bytes stored to dest so far.
Written == { i \in 1..destCap : destBytes[i] # UNWRITTEN }

\* C2: *destLen is 0 from entry on and is written again only on success: with
\* TINF_OK it is the number of bytes written to dest, with any other status
\* it is 0 however many bytes were written.
DestLenContract ==
    /\ pc = "entry" => destLenOut = destCap
    /\ pc \notin {"entry", "done"} => destLenOut = 0
    /\ pc = "done" /\ res = TINF_OK =>
          /\ destLenOut = Cardinality(Written)
          /\ Written = 1..destLenOut
          /\ destLenOut = destLen
    /\ pc = "done" /\ res # TINF_OK =>
          /\ res \in {TINF_DATA_ERROR, TINF_BUF_ERROR}
          /\ destLenOut = 0

\* C2 witness: an error returned after bytes were written.
DestLenContractWitness ==
    /\ pc = "done"
    /\ res = TINF_DATA_ERROR
    /\ Cardinality(Written) > 0
    /\ destLenOut = 0

\* C3: once the bit reader ran out of source bytes the call returns
\* TINF_DATA_ERROR, whatever the capacity.
OverflowIsDataError ==
    pc = "done" /\ overflow = 1 => res = TINF_DATA_ERROR

\* C4: a source that decodes with TINF_OK into N bytes given ample room gives
\* TINF_BUF_ERROR with any capacity below N.
SmallCapacityIsBufError ==
    /\ ample.res \in {TINF_OK, TINF_DATA_ERROR, TINF_BUF_ERROR}
    /\ pc \in {"done", "fault"} /\ ample.res = TINF_OK /\ destCap < ample.destLen
          => res = TINF_BUF_ERROR
    /\ pc \in {"done", "fault"} /\ ample.res = TINF_OK /\ destCap >= ample.destLen
          => res = TINF_OK /\ destLenOut = ample.destLen

\* C4 witness: a match copy that found no room, in a source that decodes
\* with ample room.
SmallCapacityWitness ==
    /\ pc = "done"
    /\ ample.res = TINF_OK
    /\ destCap < ample.destLen
    /\ last.kind = "match_full"
    /\ res = TINF_BUF_ERROR

\* Bit k of the source, in stream order; 0 beyond its end.
SourceBit(k) ==
    IF k \div 8 < Len(sourceBytes)
    THEN (sourceBytes[k \div 8 + 1] \div Pow2(k % 8)) % 2
    ELSE 0

\* C5: blocks are taken in stream order, BFINAL then the two bits of BTYPE
\* read for each; every block before the last one decoded had BFINAL clear
\* and gave TINF_OK; a BTYPE of 3 gives TINF_DATA_ERROR; the call returns the
\* status of the first block that fails, and TINF_OK only when the last block
\* decoded had BFINAL set and gave TINF_OK.
BlockOrder ==
    /\ \A i \in DOMAIN hist :
          /\ hist[i].bfinal = SourceBit(hist[i].at)
          /\ hist[i].btype = SourceBit(hist[i].at + 1) + 2 * SourceBit(hist[i].at + 2)
          /\ i = 1 => hist[i].at = 0
          /\ i > 1 => hist[i].at >= hist[i - 1].at + 3
          /\ i < Len(hist) => hist[i].bfinal = 0 /\ hist[i].res = TINF_OK
          /\ hist[i].btype = 3 => i = Len(hist) /\ pc = "done" /\ res = TINF_DATA_ERROR
    /\ pc = "header" /\ hist # << >> =>
          hist[Len(hist)].bfinal = 0 /\ hist[Len(hist)].res = TINF_OK
    /\ pc \in {"stored", "fixed", "dynamic", "rle", "sym"} =>
          hist # << >> /\ hist[Len(hist)].res = NONE
    /\ pc = "done" =>
          /\ hist # << >>
          /\ res = hist[Len(hist)].res
          /\ res = TINF_OK => hist[Len(hist)].bfinal = 1

\* C5 witness: TINF_OK after two blocks, the second with BFINAL, everything
\* before it without.
BlockOrderWitness ==
    /\ pc = "done"
    /\ res = TINF_OK
    /\ Len(hist) = 2
    /\ hist[1].btype = 2
    /\ hist[2].btype = 0

\* The number of i < n with lengths[i] = l.
CodesOfLength(l) == Cardinality({ i \in 0..(num - 1) : lengths[i] = l })

\* The sum over the non-zero lengths of 2^(15 - len), from length l on.
RECURSIVE KraftSum(_)
KraftSum(l) ==
    IF l > 15 THEN 0 ELSE CodesOfLength(l) * Pow2(15 - l) + KraftSum(l + 1)

NonZero == { i \in 0..(num - 1) : lengths[i] # 0 }

\* C6: tinf_build_tree gives TINF_OK exactly for no code at all, one code of
\* length 1, or more than one code forming a complete code, and
\* TINF_DATA_ERROR for every other vector.
BuildLegality ==
    pc = "built" =>
        /\ res \in {TINF_OK, TINF_DATA_ERROR}
        /\ res = TINF_OK <=>
              \/ NonZero = {}
              \/ Cardinality(NonZero) = 1 /\ \A i \in NonZero : lengths[i] = 1
              \/ Cardinality(NonZero) > 1 /\ KraftSum(1) = Pow2(15)

\* C6 witness: a complete code of more than two lengths accepted.
BuildLegalityWitness ==
    /\ pc = "built"
    /\ res = TINF_OK
    /\ Cardinality(NonZero) = 4
    /\ \E i \in NonZero : lengths[i] = 3

DecodeFaults == { "assert", "assert_len", "assert_index", "assert_build",
                  "trans_uninit", "table_uninit" }

\* C7: no assertion of the decoder fails, so every symbol is decoded from
\* at most 15 bits and from an index below 288, and a tree is decoded from only
\* when it is not empty.
DecodeSafe ==
    /\ fault \notin DecodeFaults
    /\ pc = "rle" /\ num < hlit + hdist => ltree.max_sym >= 0
    /\ pc = "sym" => ltree.max_sym >= 256
    /\ last.kind \in {"bad_dist", "bad_offs", "match_full", "match"} =>
          dtree.max_sym >= 0

\* C7 witness: a symbol decoded after the source ran out.
DecodeSafeWitness ==
    /\ last.kind = "overflow"
    /\ last.pre.overflow = 1
    /\ fault = NONE

\* source[p] | source[p + 1] << 8
Le16(p) == sourceBytes[p + 1] + 256 * sourceBytes[p + 2]

StoredKinds == { "stored_short", "stored_badlen", "stored_trunc", "stored_full",
                 "stored" }

\* What the stored block entered at source offset p, dest offset q gives.
StoredOutcome(p, q) ==
    IF Len(sourceBytes) - p < 4 THEN TINF_DATA_ERROR
    ELSE IF Le16(p) + Le16(p + 2) # 65535 THEN TINF_DATA_ERROR
    ELSE IF Len(sourceBytes) - (p + 4) < Le16(p) THEN TINF_DATA_ERROR
    ELSE IF destCap - q < Le16(p) THEN TINF_BUF_ERROR
    ELSE TINF_OK

\* The offset of the first byte after the byte that holds the last BTYPE bit
\* of the header at bit position at.
StoredStart(at) == (at + 2) \div 8 + 1

\* C8: a stored block is entered with fewer than 8 bits in the bit buffer and
\* the source cursor right after the byte the BTYPE bits were in; it gives
\* TINF_DATA_ERROR when LEN is not the complement of NLEN or fewer than LEN
\* bytes remain; on success the LEN bytes after NLEN are appended to dest in
\* order, dest_written grows by LEN and the bit buffer is empty with the
\* cursor after the copied bytes, where the next block header is read.
StoredBlock ==
    /\ pc = "stored" =>
          /\ bitcount >= 0 /\ bitcount < 8
          /\ overflow = 0 => source = StoredStart(hist[Len(hist)].at)
    /\ last.kind \in StoredKinds =>
          /\ hist[Len(hist)].res = StoredOutcome(last.pre.source, last.pre.dest)
          /\ (last.kind = "stored") = (hist[Len(hist)].res = TINF_OK)
    /\ last.kind = "stored" =>
          /\ last.length = Le16(last.pre.source)
          /\ \A i \in 1..last.length :
                destBytes[last.pre.dest + i] = sourceBytes[last.pre.source + 4 + i]
          /\ \A i \in 1..destCap :
                i <= last.pre.dest \/ i > last.pre.dest + last.length
                    => destBytes[i] = last.pre.destBytes[i]
          /\ destLen = last.pre.destLen + last.length
          /\ dest = last.pre.dest + last.length
          /\ source = last.pre.source + 4 + last.length
          /\ bitcount = 0 /\ tag = 0
    /\ \A i \in 2..Len(hist) :
          hist[i - 1].btype = 0 =>
              hist[i].at = 8 * (StoredStart(hist[i - 1].at) + 4
                                + Le16(StoredStart(hist[i - 1].at)))

\* C8 witness: two bytes copied by a stored block that follows a dynamic block.
StoredBlockWitness ==
    /\ last.kind = "stored"
    /\ last.length = 2
    /\ Len(hist) = 2
    /\ hist[1].btype = 2
    /\ last.pre.bitcount > 0

\* C9: after a match copy of length bytes at offset offs, each byte copied
\* equals the byte offs before it, the bytes just written included; the dest
\* cursor and dest_written moved on by length and no earlier byte changed.
MatchCopy ==
    last.kind = "match" =>
        /\ \A i \in 1..last.length :
              /\ destBytes[last.pre.dest + i] # UNWRITTEN
              /\ destBytes[last.pre.dest + i] = destBytes[last.pre.dest + i - last.offs]
        /\ dest = last.pre.dest + last.length
        /\ destLen = last.pre.destLen + last.length
        /\ \A i \in 1..last.pre.dest : destBytes[i] = last.pre.destBytes[i]

\* C9 witness: offset 1 and length 5 after a byte 'A'.
MatchCopyWitness ==
    /\ last.kind = "match"
    /\ last.offs = 1
    /\ last.length = 5
    /\ last.pre.destBytes[last.pre.dest] = 65
    /\ \A i \in 1..6 : destBytes[i] = 65

\* The source bits not yet taken from the bit reader, plus one; 0 once the
\* reader ran out.
BitsLeft ==
    IF overflow = 0 THEN 8 * (Len(sourceBytes) - source) + bitcount + 1 ELSE 0

\* What the loops have left to do without reading a source byte: the passes
\* of the code-length loop, then the steps to the next read or return.
StepsLeft ==
    CASE pc = "header" -> 288 + 32 + 4
      [] pc \in {"stored", "fixed", "dynamic"} -> 288 + 32 + 3
      [] pc = "rle" -> 2 + (hlit + hdist - num)
      [] pc = "sym" -> 1
      [] OTHER -> 0

\* A bound on the steps the call still takes.
Variant ==
    IF pc = "entry" THEN (288 + 32 + 5) * (8 * Len(sourceBytes) + 2)
    ELSE (288 + 32 + 5) * BitsLeft + StepsLeft

\* C10: the call ends, with one of the three status codes: every step lowers
\* a bound that is never negative (a pass of a loop takes source bits,
\* advances num towards HLIT + HDIST, or follows the reader running out and
\* leads to the return), and a step is taken wherever the call has not
\* returned.
Terminates ==
    /\ [][Variant' < Variant]_vars
    /\ [](/\ Variant >= 0
          /\ pc \in {"entry", "header", "stored", "fixed", "dynamic", "rle", "sym", "done"}
          /\ pc = "rle" => num <= hlit + hdist
          /\ pc = "done" => res \in {TINF_OK, TINF_DATA_ERROR, TINF_BUF_ERROR})

\* C10 witness: a call that returned after the reader ran out while decoding
\* code lengths past the end of a source without a final block.
TerminatesWitness ==
    /\ pc = "done"
    /\ overflow = 1
    /\ Len(hist) > 1
    /\ hist[Len(hist)].btype = 2

====
